---------------------------- MODULE Spec2Model ----------------------------
(***************************************************************************)
(* SOC-Automation-Toolkit: the log normalisation pipeline (src/parser.py)  *)
(* and the interactive ingestion loop around it (src/main.py).             *)
(*                                                                         *)
(* Python values are tagged records; Python strings are TLA+ strings, read *)
(* character by character.  A call that can raise is modelled by a record  *)
(* [exc, ret]: exc = "none" when the call returns ret, the exception's     *)
(* class name when it raises.                                              *)
(***************************************************************************)
EXTENDS Integers, Sequences, FiniteSets, TLC

VARIABLES
    pc,              \* main.py: where the process is: "principal", "ingesta", "exited", "crashed"
    datos_cargados,  \* main.py:119: the caller's running collection
    EVTX_SUPPORT,    \* parser.py:23-28: fixed when the module is imported
    intento,         \* history: what the last pass through the ingestion loop did
    intentos,        \* history: number of ingestion attempts made so far
    salida,          \* what the last menu step printed (its kind only)
    nfn, narg, nres, \* normaliser harness: function applied, argument, result
    pfmt, pfile, pres \* parser harness: parser applied, file content, result

vars == <<pc, datos_cargados, EVTX_SUPPORT, intento, intentos, salida,
          nfn, narg, nres, pfmt, pfile, pres>>

---------------------------------------------------------------------------
(* Records.  Each is built by the one constructor below. *)

\* Python values, by class
PyNone == [cls |-> "NoneType"]
PyInt(int) == [cls |-> "int", int |-> int]
PyBool(bool) == [cls |-> "bool", bool |-> bool]
PyStr(str) == [cls |-> "str", str |-> str]
\* a float: float is "finite", "inf", "-inf" or "nan"; for a finite float trunc is
\* the value truncated toward zero (what int() keeps) and iszero says it is 0.0
PyFloat(float, trunc, iszero) ==
    [cls |-> "float", float |-> float, trunc |-> trunc, iszero |-> iszero]
\* a list, by its length (the code never reads its elements)
PyList(len) == [cls |-> "list", len |-> len]
\* a dict: items is the sequence of its <<key, value>> pairs in insertion order;
\* of two pairs with the same key the later one counts
PyDict(items) == [cls |-> "dict", items |-> items]

EmptyDict == PyDict(<<>>)

\* the outcome of a call: exc names the exception raised, "none" when it returns ret
Raises(exc) == [exc |-> exc, ret |-> PyNone]
Returns(ret) == [exc |-> "none", ret |-> ret]

\* the outcome of a library parse that either fails or gives its parts
Bad == [ok |-> FALSE]
Hora(hh, mm, ss, us) == [ok |-> TRUE, hh |-> hh, mm |-> mm, ss |-> ss, us |-> us]
Texto(txt) == [ok |-> TRUE, txt |-> txt]
Entero(num) == [ok |-> TRUE, num |-> num]
Grupos(g1, g2, g3, g4) == [ok |-> TRUE, g1 |-> g1, g2 |-> g2, g3 |-> g3, g4 |-> g4]

\* parser.py:106-112: a normalised event, and main.py:74: the event once tagged
Evento(timestamp, host, process, message, severity) ==
    [timestamp |-> timestamp, host |-> host, process |-> process,
     message |-> message, severity |-> severity]
Etiquetado(evento, _log_type) ==
    [timestamp |-> evento.timestamp, host |-> evento.host, process |-> evento.process,
     message |-> evento.message, severity |-> evento.severity, _log_type |-> _log_type]

\* a parser call:
\*   exc       "none" when the call returns, else the exception it raises
\*   datos     the events gathered (returned only when exc = "none")
\*   invalidas the lineas_invalidas counter when the call ended
\*   abierto   whether the call opened the file
\*   leidas    how many records the loop took from the file
Llamada(exc, datos, invalidas, abierto, leidas) ==
    [exc |-> exc, datos |-> datos, invalidas |-> invalidas, abierto |-> abierto,
     leidas |-> leidas]

\* a line of a JSON/NDJSON file, by what parser.py:164-168 makes of it:
\*   "blank"  strip() leaves nothing
\*   "bad"    json.loads raises JSONDecodeError
\*   "json"   json.loads returns the value obj
JBlank == [kind |-> "blank"]
JBad == [kind |-> "bad"]
JVal(obj) == [kind |-> "json", obj |-> obj]

\* an EVTX container, as parser.py:229-232 meets it:
\*   abre       Evtx(ruta) opens it
\*   registros  the records, "xml" when registro.xml() parses with
\*              ET.fromstring, "bad" when it does not
\*   falla      the record at which records() fails to read on, 0 if none
Evtx(abre, registros, falla) == [abre |-> abre, registros |-> registros, falla |-> falla]

\* a path the user types (parser.py:40-45):
\*   clase       "ausente", "directorio" or "archivo"
\*   enTemporal  the file already lies in the temporary directory, so that
\*               the copy's source and destination are the same file
\*   legible     the file can be opened for reading
\*   nombre      its base name
Ruta(clase, enTemporal, legible, nombre) ==
    [clase |-> clase, enTemporal |-> enTemporal, legible |-> legible, nombre |-> nombre]

\* what one pass through the loop of menu_ingesta did (main.py:42-78)
Intento(opcion, ruta, antes, staging, llamado, llamada) ==
    [opcion |-> opcion, ruta |-> ruta, antes |-> antes, staging |-> staging,
     llamado |-> llamado, llamada |-> llamada]

\* Python truthiness, as `if not ts` and `if not ruta_temp` read it
Truthy(v) ==
    CASE v.cls = "NoneType" -> FALSE
      [] v.cls = "int" -> v.int # 0
      [] v.cls = "bool" -> v.bool
      [] v.cls = "str" -> v.str # ""
      [] v.cls = "float" -> ~v.iszero
      [] v.cls = "list" -> v.len > 0
      [] v.cls = "dict" -> v.items # <<>>

---------------------------------------------------------------------------
(* Characters and numerals *)

\* s[a-1:b] and s[i-1:i] of Python: positions outside the string give ""
Sub(s, a, b) == LET lo == IF a < 1 THEN 1 ELSE a
                    hi == IF b > Len(s) THEN Len(s) ELSE b
                IN  IF lo > hi THEN "" ELSE SubSeq(s, lo, hi)
Ch(s, i) == Sub(s, i, i)

Digits == "0123456789"
DigitStr(d) == SubSeq(Digits, d + 1, d + 1)
IsDigit(c) == \E d \in 0..9 : DigitStr(d) = c
DigitVal(c) == CHOOSE d \in 0..9 : DigitStr(d) = c

LowerAlpha == "abcdefghijklmnopqrstuvwxyz"
UpperAlpha == "ABCDEFGHIJKLMNOPQRSTUVWXYZ"
IsLower(c) == \E i \in 1..26 : Ch(LowerAlpha, i) = c
IsUpper(c) == \E i \in 1..26 : Ch(UpperAlpha, i) = c
ToLower(c) == IF IsUpper(c)
              THEN Ch(LowerAlpha, CHOOSE i \in 1..26 : Ch(UpperAlpha, i) = c)
              ELSE c

\* \s of the re module and str.strip(): blank, tab, carriage return
SpaceChars == {" ", "\t", "\r"}
IsSpace(c) == c \in SpaceChars
\* \w of the re module
IsWord(c) == IsLower(c) \/ IsUpper(c) \/ IsDigit(c) \/ c = "_"

AllDigits(s) == Len(s) > 0 /\ \A i \in 1..Len(s) : IsDigit(Ch(s, i))

RECURSIVE ToNat(_)
ToNat(s) == IF s = "" THEN 0
            ELSE 10 * ToNat(Sub(s, 1, Len(s) - 1)) + DigitVal(Ch(s, Len(s)))

Pad2(n) == DigitStr((n \div 10) % 10) \o DigitStr(n % 10)
Pad4(n) == Pad2(n \div 100) \o Pad2(n % 100)
Pad6(n) == Pad2(n \div 10000) \o Pad4(n % 10000)

RECURSIVE LStrip(_)
LStrip(s) == IF s # "" /\ IsSpace(Head(s)) THEN LStrip(Tail(s)) ELSE s
RECURSIVE RStrip(_)
RStrip(s) == IF s # "" /\ IsSpace(Ch(s, Len(s)))
             THEN RStrip(Sub(s, 1, Len(s) - 1)) ELSE s
\* str.strip()
Strip(s) == RStrip(LStrip(s))

---------------------------------------------------------------------------
(* datetime.fromisoformat, datetime.strptime and datetime.isoformat, as     *)
(* normalizar_timestamp uses them (parser.py:62-68).  fromisoformat reads   *)
(* YYYY-MM-DD[*HH[:MM[:SS[.fff[fff]]]][(+|-)HH:MM[:SS]]]; offsets with a      *)
(* sub-second part, which no input of the model carries, are not modelled.  *)

\* str.replace("Z", "+00:00"): every occurrence, not only a trailing one
RECURSIVE ReplaceZ(_)
ReplaceZ(s) == IF s = "" THEN ""
               ELSE (IF Head(s) = "Z" THEN "+00:00" ELSE Head(s)) \o ReplaceZ(Tail(s))

IsLeap(y) == (y % 4 = 0 /\ y % 100 # 0) \/ y % 400 = 0
DaysInMonth(y, m) == IF m = 2 THEN (IF IsLeap(y) THEN 29 ELSE 28)
                     ELSE IF m \in {4, 6, 9, 11} THEN 30 ELSE 31

\* the first position of character c in s, 0 when there is none (str.find + 1)
FindCh(s, c) == IF \E i \in 1..Len(s) : Ch(s, i) = c
                THEN CHOOSE i \in 1..Len(s) :
                        Ch(s, i) = c /\ \A j \in 1..(i - 1) : Ch(s, j) # c
                ELSE 0

\* HH[:MM[:SS[.fff[fff]]]] -> Hora, or Bad
ParseHHMMSS(s) ==
    LET n == Len(s)
        two(i) == Sub(s, i, i + 1)
        frac == Sub(s, 10, n)
        us == IF n <= 8 THEN 0
              ELSE IF Len(frac) = 3 THEN 1000 * ToNat(frac) ELSE ToNat(frac)
        shape == \/ n = 2 /\ AllDigits(two(1))
                 \/ n = 5 /\ AllDigits(two(1)) /\ Ch(s, 3) = ":" /\ AllDigits(two(4))
                 \/ /\ n >= 8
                    /\ AllDigits(two(1)) /\ Ch(s, 3) = ":" /\ AllDigits(two(4))
                    /\ Ch(s, 6) = ":" /\ AllDigits(two(7))
                    /\ (n > 8 => Ch(s, 9) = "." /\ Len(frac) \in {3, 6} /\ AllDigits(frac))
    IN  IF ~shape THEN Bad
        ELSE Hora(ToNat(two(1)),
                  IF n >= 5 THEN ToNat(two(4)) ELSE 0,
                  IF n >= 8 THEN ToNat(two(7)) ELSE 0,
                  us)

\* the UTC offset of isoformat(): (+|-)HH:MM, with :SS when the seconds are not 0
FormatOffset(secs) ==
    LET a == IF secs < 0 THEN -secs ELSE secs
    IN  (IF secs < 0 THEN "-" ELSE "+") \o Pad2(a \div 3600) \o ":" \o Pad2((a % 3600) \div 60)
        \o (IF a % 60 # 0 THEN ":" \o Pad2(a % 60) ELSE "")

\* datetime.fromisoformat(s).isoformat(): Texto, or Bad for ValueError
FromIsoFormat(s) ==
    LET n == Len(s)
        ds == Sub(s, 1, 10)
        dateShape == /\ n >= 10
                     /\ AllDigits(Sub(ds, 1, 4)) /\ Ch(ds, 5) = "-"
                     /\ AllDigits(Sub(ds, 6, 7)) /\ Ch(ds, 8) = "-"
                     /\ AllDigits(Sub(ds, 9, 10))
        y == ToNat(Sub(ds, 1, 4))
        mo == ToNat(Sub(ds, 6, 7))
        d == ToNat(Sub(ds, 9, 10))
        dateOk == dateShape /\ y >= 1 /\ mo \in 1..12 /\ d >= 1 /\ d <= DaysInMonth(y, mo)
        ts == Sub(s, 12, n)
        minus == FindCh(ts, "-")
        tzpos == IF minus # 0 THEN minus ELSE FindCh(ts, "+")
        timestr == IF tzpos > 0 THEN Sub(ts, 1, tzpos - 1) ELSE ts
        tzstr == Sub(ts, tzpos + 1, Len(ts))
        tm == ParseHHMMSS(timestr)
        tz == ParseHHMMSS(tzstr)
        tzsecs == (IF Ch(ts, tzpos) = "-" THEN -1 ELSE 1) * (3600 * tz.hh + 60 * tz.mm + tz.ss)
        tzOk == tzpos = 0 \/ (Len(tzstr) \in {5, 8} /\ tz.ok /\ tzsecs > -86400 /\ tzsecs < 86400)
        timeOk == tm.ok /\ tm.hh <= 23 /\ tm.mm <= 59 /\ tm.ss <= 59
        date == Pad4(y) \o "-" \o Pad2(mo) \o "-" \o Pad2(d)
    IN  IF ~dateOk THEN Bad
        ELSE IF n = 10 THEN Texto(date \o "T00:00:00")
        ELSE IF Len(ts) < 2 \/ ~timeOk \/ ~tzOk THEN Bad
        ELSE Texto(date \o "T" \o Pad2(tm.hh) \o ":" \o Pad2(tm.mm) \o ":" \o Pad2(tm.ss)
                   \o (IF tm.us # 0 THEN "." \o Pad6(tm.us) ELSE "")
                   \o (IF tzpos > 0 THEN FormatOffset(tzsecs) ELSE ""))

\* %b in the C locale, matched without regard to case: the month's number, 0 if none
MonthAbbr == <<"jan", "feb", "mar", "apr", "may", "jun",
               "jul", "aug", "sep", "oct", "nov", "dec">>
RECURSIVE LowerStr(_)
LowerStr(s) == IF s = "" THEN "" ELSE ToLower(Head(s)) \o LowerStr(Tail(s))
MonthOf(s) == IF \E i \in 1..12 : MonthAbbr[i] = LowerStr(s)
              THEN CHOOSE i \in 1..12 : MonthAbbr[i] = LowerStr(s) ELSE 0

DigitChars == {DigitStr(d) : d \in 0..9}

\* the length of the run of characters of the set S that starts at position i
RECURSIVE RunLen(_, _, _)
RunLen(s, i, S) == IF i <= Len(s) /\ Ch(s, i) \in S THEN 1 + RunLen(s, i + 1, S) ELSE 0

\* datetime.strptime(s, "%b %d %H:%M:%S").isoformat(): Texto, or Bad.  Each numeric
\* directive takes one or two digits within its range, a blank of the format
\* takes one or more whitespace characters, nothing may be left over, and the
\* date is one of the year 1900.
StrpTime(s) ==
    LET n == Len(s)
        mon == MonthOf(Sub(s, 1, 3))
        w1 == RunLen(s, 4, SpaceChars)
        dpos == 4 + w1
        dl == RunLen(s, dpos, DigitChars)
        day == ToNat(Sub(s, dpos, dpos + dl - 1))
        w2 == RunLen(s, dpos + dl, SpaceChars)
        hpos == dpos + dl + w2
        hl == RunLen(s, hpos, DigitChars)
        hour == ToNat(Sub(s, hpos, hpos + hl - 1))
        mpos == hpos + hl + 1
        ml == RunLen(s, mpos, DigitChars)
        min == ToNat(Sub(s, mpos, mpos + ml - 1))
        spos == mpos + ml + 1
        sl == RunLen(s, spos, DigitChars)
        sec == ToNat(Sub(s, spos, spos + sl - 1))
        ok == /\ n >= 3 /\ mon # 0
              /\ w1 >= 1 /\ dl \in {1, 2} /\ day \in 1..31
              /\ w2 >= 1 /\ hl \in {1, 2} /\ hour \in 0..23
              /\ Ch(s, hpos + hl) = ":" /\ ml \in {1, 2} /\ min \in 0..59
              /\ Ch(s, mpos + ml) = ":" /\ sl \in {1, 2} /\ sec \in 0..59
              /\ spos + sl - 1 = n
              /\ day <= DaysInMonth(1900, mon)
    IN  IF ~ok THEN Bad
        ELSE Texto("1900-" \o Pad2(mon) \o "-" \o Pad2(day) \o "T"
                   \o Pad2(hour) \o ":" \o Pad2(min) \o ":" \o Pad2(sec))

---------------------------------------------------------------------------
(* parser.py:49-70 *)

normalizar_timestamp(ts) ==
    IF ~Truthy(ts) THEN Returns(PyStr(""))
    ELSE IF ts.cls # "str" THEN Raises("AttributeError")  \* ts.replace
    ELSE LET iso == FromIsoFormat(ReplaceZ(ts.str))
             sys == StrpTime(ts.str)
         IN  IF iso.ok THEN Returns(PyStr(iso.txt))
             ELSE IF sys.ok THEN Returns(PyStr(sys.txt))
             ELSE Returns(ts)

---------------------------------------------------------------------------
(* int(), as normalizar_severity calls it (parser.py:83) *)

\* int(str): surrounding whitespace, an optional sign, then digits in which single
\* underscores may stand between digits; Entero, or Bad for ValueError
IntOfStr(s0) ==
    LET s == Strip(s0)
        signed == s # "" /\ Head(s) \in {"+", "-"}
        body == IF signed THEN Tail(s) ELSE s
        n == Len(body)
        shape == /\ n > 0
                 /\ \A i \in 1..n : IsDigit(Ch(body, i)) \/ Ch(body, i) = "_"
                 /\ \A i \in 1..n : Ch(body, i) = "_" =>
                        i > 1 /\ i < n /\ IsDigit(Ch(body, i - 1)) /\ IsDigit(Ch(body, i + 1))
        RECURSIVE val(_)
        val(k) == IF k = 0 THEN 0
                  ELSE IF Ch(body, k) = "_" THEN val(k - 1)
                  ELSE 10 * val(k - 1) + DigitVal(Ch(body, k))
    IN  IF ~shape THEN Bad
        ELSE Entero((IF signed /\ Head(s) = "-" THEN -1 ELSE 1) * val(n))

\* int(v): the integer, or the exception int() raises
PyIntOf(v) ==
    CASE v.cls = "int" -> Returns(v.int)
      [] v.cls = "bool" -> Returns(IF v.bool THEN 1 ELSE 0)
      [] v.cls = "str" -> (IF IntOfStr(v.str).ok THEN Returns(IntOfStr(v.str).num)
                           ELSE Raises("ValueError"))
      [] v.cls = "float" -> (CASE v.float = "finite" -> Returns(v.trunc)
                               [] v.float = "nan" -> Raises("ValueError")
                               [] OTHER -> Raises("OverflowError"))
      [] OTHER -> Raises("TypeError")   \* None, list, dict

Max(a, b) == IF a >= b THEN a ELSE b
Min(a, b) == IF a <= b THEN a ELSE b

(* parser.py:72-86 *)
normalizar_severity(sev) ==
    LET r == PyIntOf(sev)
    IN  IF r.exc = "none" THEN Returns(Max(0, Min(r.ret, 10)))
        ELSE IF r.exc \in {"TypeError", "ValueError"} THEN Returns(0)
        ELSE Raises(r.exc)

---------------------------------------------------------------------------
(* The parsers *)

\* dict.get(k, default) on a value: AttributeError unless the value is a dict
DictGet(d, k, default) ==
    IF d.cls # "dict" THEN Raises("AttributeError")
    ELSE LET at == {i \in 1..Len(d.items) : d.items[i][1] = k}
         IN  IF at = {} THEN Returns(default)
             ELSE Returns(d.items[CHOOSE i \in at : \A j \in at : j <= i][2])

(* csv.DictReader (parser.py:103-104, 133-134).  The file is the sequence   *)
(* of rows csv.reader yields, each a sequence of cells, <<>> for a blank    *)
(* line.  The first row gives the fieldnames; rows that are <<>> are        *)
(* skipped; a named cell beyond the row's end is None (restval) and the     *)
(* cells beyond the fieldnames go under the key None (restkey), which no     *)
(* get of the parsers asks for.                                             *)
DictRow(fieldnames, row) ==
    PyDict([i \in 1..Len(fieldnames) |->
               <<fieldnames[i], IF i <= Len(row) THEN PyStr(row[i]) ELSE PyNone>>])

\* the dict literal of parser.py:106-112; cols names the five columns read
MapeaFila(fila, cols, procDefault) ==
    LET ts == normalizar_timestamp(DictGet(fila, cols[1], PyStr("")).ret)
        sev == normalizar_severity(DictGet(fila, cols[5], PyInt(0)).ret)
    IN  IF ts.exc # "none" THEN Raises(ts.exc)
        ELSE IF sev.exc # "none" THEN Raises(sev.exc)
        ELSE Returns(Evento(ts.ret,
                            DictGet(fila, cols[2], PyStr("")).ret,
                            DictGet(fila, cols[3], PyStr(procDefault)).ret,
                            DictGet(fila, cols[4], PyStr("")).ret,
                            sev.ret))

\* the loop of parser.py:104-114: a row whose mapping raises is counted, not kept
RECURSIVE CsvLoop(_, _, _, _, _, _)
CsvLoop(filas, i, cols, procDefault, datos, inv) ==
    IF i > Len(filas) THEN Llamada("none", datos, inv, TRUE, Len(filas))
    ELSE IF filas[i] = <<>> THEN CsvLoop(filas, i + 1, cols, procDefault, datos, inv)
    ELSE LET r == MapeaFila(DictRow(filas[1], filas[i]), cols, procDefault)
         IN  IF r.exc = "none"
             THEN CsvLoop(filas, i + 1, cols, procDefault, Append(datos, r.ret), inv)
             ELSE CsvLoop(filas, i + 1, cols, procDefault, datos, inv + 1)

ColsLinux == <<"timestamp", "host", "process", "message", "severity">>
ColsWindows == <<"TimeCreated", "Computer", "ProviderName", "Message", "Level">>

(* parser.py:88-116 *)
procesar_csv(filas) == CsvLoop(filas, 2, ColsLinux, "", <<>>, 0)

(* parser.py:118-146 *)
procesar_csv_windows(filas) == CsvLoop(filas, 2, ColsWindows, "unknown", <<>>, 0)

\* obj.get(outer, {}).get(inner, default), default already evaluated
Nested(obj, outer, inner, default) ==
    LET o == DictGet(obj, outer, EmptyDict)
    IN  IF o.exc # "none" THEN o ELSE DictGet(o.ret, inner, default)

\* the dict literal of parser.py:169-176, its values evaluated in order; the
\* fallback of each nested get is an argument, evaluated whether used or not
MapeaObjeto(obj) ==
    LET tsraw == DictGet(obj, "timestamp", PyStr(""))
        ts == IF tsraw.exc # "none" THEN tsraw ELSE normalizar_timestamp(tsraw.ret)
        mgr == Nested(obj, "manager", "name", PyStr(""))
        host == IF mgr.exc # "none" THEN mgr ELSE Nested(obj, "agent", "name", mgr.ret)
        dec == Nested(obj, "decoder", "name", PyStr("unknown"))
        proc == IF dec.exc # "none" THEN dec
                ELSE Nested(obj, "predecoder", "program_name", dec.ret)
        msg == DictGet(obj, "full_log", PyStr(""))
        lvl == Nested(obj, "rule", "level", PyInt(0))
        sev == IF lvl.exc # "none" THEN lvl ELSE normalizar_severity(lvl.ret)
    IN  IF ts.exc # "none" THEN Raises(ts.exc)
        ELSE IF host.exc # "none" THEN Raises(host.exc)
        ELSE IF proc.exc # "none" THEN Raises(proc.exc)
        ELSE IF msg.exc # "none" THEN Raises(msg.exc)
        ELSE IF sev.exc # "none" THEN Raises(sev.exc)
        ELSE Returns(Evento(ts.ret, host.ret, proc.ret, msg.ret, sev.ret))

\* the loop of parser.py:163-178: only JSONDecodeError is caught
RECURSIVE JsonLoop(_, _, _, _)
JsonLoop(lineas, i, datos, inv) ==
    IF i > Len(lineas) THEN Llamada("none", datos, inv, TRUE, Len(lineas))
    ELSE IF lineas[i].kind = "blank" THEN JsonLoop(lineas, i + 1, datos, inv)
    ELSE IF lineas[i].kind = "bad" THEN JsonLoop(lineas, i + 1, datos, inv + 1)
    ELSE LET r == MapeaObjeto(lineas[i].obj)
         IN  IF r.exc = "none" THEN JsonLoop(lineas, i + 1, Append(datos, r.ret), inv)
             ELSE Llamada(r.exc, datos, inv, TRUE, i)

\* a variant of procesar_json that counts a blank line as an invalid one
procesar_json_cuenta_blancas(lineas) ==
    LET r == JsonLoop(lineas, 1, <<>>, 0)
        blancas == Cardinality({i \in 1..Len(lineas) : lineas[i].kind = "blank"})
    IN  Llamada(r.exc, r.datos, r.invalidas + blancas, r.abierto, r.leidas)

(* parser.py:148-180 *)
procesar_json(lineas) == JsonLoop(lineas, 1, <<>>, 0)

\* regex.match of parser.py:195 on a stripped line.  The pattern is
\*   ^ (\w+\s+\d+\s+\d+:\d+:\d+) \s+ (\S+) \s+ ([^:]+) : \s+ (. *) $
\* (written here with blanks between its parts).  Every quantifier is greedy.
\* Each run but the one before group 3 is followed by a character its class
\* excludes, so it takes its whole run; the \s+ before group 3 gives back one
\* character when nothing but the colon follows it, and group 3 ends at the
\* first colon after it.  The result is Grupos, or Bad when there is no match.
WordChars == {Ch(LowerAlpha, i) : i \in 1..26} \cup {Ch(UpperAlpha, i) : i \in 1..26}
             \cup DigitChars \cup {"_"}

\* the length of the run of characters outside the set S that starts at position i
RECURSIVE RunLenNot(_, _, _)
RunLenNot(s, i, S) ==
    IF i <= Len(s) /\ Ch(s, i) \notin S THEN 1 + RunLenNot(s, i + 1, S) ELSE 0

RegexMatch(s) ==
    LET n == Len(s)
        w == RunLen(s, 1, WordChars)
        a1 == RunLen(s, 1 + w, SpaceChars)
        p2 == 1 + w + a1
        d1 == RunLen(s, p2, DigitChars)
        a2 == RunLen(s, p2 + d1, SpaceChars)
        p3 == p2 + d1 + a2
        d2 == RunLen(s, p3, DigitChars)
        p4 == p3 + d2 + 1
        d3 == RunLen(s, p4, DigitChars)
        p5 == p4 + d3 + 1
        d4 == RunLen(s, p5, DigitChars)
        e1 == p5 + d4 - 1                      \* group 1 is s[1..e1]
        a3 == RunLen(s, e1 + 1, SpaceChars)
        hp == e1 + 1 + a3
        hl == RunLenNot(s, hp, SpaceChars)     \* group 2 is s[hp..hp+hl-1]
        a4 == RunLen(s, hp + hl, SpaceChars)
        q == hp + hl + a4
        nc == RunLenNot(s, q, {":"})
        pp == IF nc = 0 THEN q - 1 ELSE q      \* group 3 is s[pp..c-1]
        c == q + nc                            \* the colon
        a5 == RunLen(s, c + 1, SpaceChars)
        mp == c + 1 + a5                       \* group 4 is s[mp..n]
        ok == /\ w >= 1 /\ a1 >= 1 /\ d1 >= 1 /\ a2 >= 1
              /\ d2 >= 1 /\ Ch(s, p3 + d2) = ":"
              /\ d3 >= 1 /\ Ch(s, p4 + d3) = ":"
              /\ d4 >= 1 /\ a3 >= 1 /\ hl >= 1 /\ a4 >= 1
              /\ (nc = 0 => a4 >= 2)
              /\ Ch(s, c) = ":"
              /\ a5 >= 1
    IN  IF ~ok THEN Bad
        ELSE Grupos(Sub(s, 1, e1), Sub(s, hp, hp + hl - 1), Sub(s, pp, c - 1), Sub(s, mp, n))

\* the loop of parser.py:198-209
RECURSIVE SyslogLoop(_, _, _, _)
SyslogLoop(lineas, i, datos, inv) ==
    IF i > Len(lineas) THEN Llamada("none", datos, inv, TRUE, Len(lineas))
    ELSE LET m == RegexMatch(Strip(lineas[i]))
             ts == normalizar_timestamp(PyStr(m.g1))
         IN  IF ~m.ok THEN SyslogLoop(lineas, i + 1, datos, inv + 1)
             ELSE IF ts.exc # "none" THEN Llamada(ts.exc, datos, inv, TRUE, i)
             ELSE SyslogLoop(lineas, i + 1,
                             Append(datos, Evento(ts.ret, PyStr(m.g2), PyStr(m.g3),
                                                  PyStr(m.g4), 0)),
                             inv)

\* a variant of procesar_syslog that passes over a blank line without counting it
procesar_syslog_salta_blancas(lineas) ==
    LET r == SyslogLoop(lineas, 1, <<>>, 0)
        blancas == Cardinality({i \in 1..Len(lineas) : Strip(lineas[i]) = ""})
    IN  Llamada(r.exc, r.datos, r.invalidas - blancas, r.abierto, r.leidas)

(* parser.py:182-211; the file is the sequence of its lines, newline removed *)
procesar_syslog(lineas) == SyslogLoop(lineas, 1, <<>>, 0)

\* ElementTree's findtext with the paths of parser.py:234-238: a path with an
\* @attribute step is not one ElementPath knows, and selecting with it raises
\* KeyError; a plain path gives the element's text, None when there is none
FindText(path, texto) ==
    IF \E i \in 1..Len(path) : Ch(path, i) = "@" THEN Raises("KeyError")
    ELSE Returns(texto)

\* the dict literal of parser.py:233-239; it raises at its first value, the
\* timestamp's @SystemTime path, before any other is read
MapeaXml(registro) ==
    LET tsraw == FindText(".//TimeCreated/@SystemTime", PyNone)
    IN  IF registro = "bad" THEN Raises("ParseError")
        ELSE IF tsraw.exc # "none" THEN Raises(tsraw.exc)
        ELSE Returns(Evento(normalizar_timestamp(tsraw.ret).ret, PyStr(""),
                            PyStr("unknown"), PyStr(""), 0))

\* the loop of parser.py:230-241, inside the try of parser.py:228-244
RECURSIVE EvtxLoop(_, _, _, _)
EvtxLoop(f, i, datos, inv) ==
    IF i > Len(f.registros) \/ i = f.falla THEN Llamada("none", datos, inv, TRUE, i - 1)
    ELSE IF MapeaXml(f.registros[i]).exc = "none"
         THEN EvtxLoop(f, i + 1, Append(datos, MapeaXml(f.registros[i]).ret), inv)
         ELSE EvtxLoop(f, i + 1, datos, inv + 1)

\* a variant of procesar_evtx without the guard of parser.py:223-225
procesar_evtx_sin_guardia(f, support) ==
    IF ~f.abre THEN Llamada("none", <<>>, 0, TRUE, 0)
    ELSE EvtxLoop(f, 1, <<>>, 0)

(* parser.py:213-245 *)
procesar_evtx(f, support) ==
    IF ~support THEN Llamada("none", <<>>, 0, FALSE, 0)
    ELSE IF ~f.abre THEN Llamada("none", <<>>, 0, TRUE, 0)
    ELSE EvtxLoop(f, 1, <<>>, 0)

---------------------------------------------------------------------------
(* Staging (parser.py:30-47) *)

TempDir == "/tmp/"

\* a variant of guardar_en_temporal without the test of parser.py:40
guardar_sin_comprobar(ruta) ==
    IF ruta.enTemporal THEN Raises("SameFileError")
    ELSE IF ~ruta.legible THEN Raises("PermissionError")
    ELSE Returns(PyStr(TempDir \o ruta.nombre))

\* shutil.copy2 refuses to copy a file onto itself and must open its source
guardar_en_temporal(ruta) ==
    IF ruta.clase # "archivo" THEN Returns(PyNone)
    ELSE IF ruta.enTemporal THEN Raises("SameFileError")
    ELSE IF ~ruta.legible THEN Raises("PermissionError")
    ELSE Returns(PyStr(TempDir \o ruta.nombre))

---------------------------------------------------------------------------
(* main.py *)

Opciones == {"1", "2", "3", "4", "5"}

\* main.py:56-70: the tag each branch sets
Tipo(opcion) ==
    CASE opcion = "1" -> "CSV_Linux"
      [] opcion = "2" -> "JSON"
      [] opcion = "3" -> "SYSLOG"
      [] opcion = "4" -> "CSV_Windows"
      [] opcion = "5" -> "EVTX_Windows"

\* main.py:73-74: evento["_log_type"] = tipo, for every new event
Etiqueta(nuevos_datos, tipo) ==
    [i \in 1..Len(nuevos_datos) |-> Etiquetado(nuevos_datos[i], tipo)]

\* a variant of Extiende that puts the new events in front of the collection
ExtiendeAlFrente(datos, nuevos_datos, tipo) ==
    IF nuevos_datos # <<>> THEN Etiqueta(nuevos_datos, tipo) \o datos ELSE datos

\* main.py:72-75: datos_cargados.extend(nuevos_datos), when there are any
Extiende(datos, nuevos_datos, tipo) ==
    IF nuevos_datos # <<>> THEN datos \o Etiqueta(nuevos_datos, tipo) ELSE datos

SinLlamada == Llamada("none", <<>>, 0, FALSE, 0)

SinIntento == Intento("", Ruta("ausente", FALSE, FALSE, ""), <<>>, Returns(PyNone),
                      FALSE, SinLlamada)

\* main.py:91-94: the slice and len() of the message need a string or a list
Mostrable(evento) == evento.message.cls \in {"str", "list"}

(* main.py:80-94 *)
mostrar_eventos(datos) ==
    IF datos = <<>> THEN Returns(PyNone)
    ELSE IF \E i \in 1..Min(3, Len(datos)) : ~Mostrable(datos[i]) THEN Raises("TypeError")
    ELSE Returns(PyNone)

---------------------------------------------------------------------------
(* Inputs *)

MaxIntentos == 2   \* ingestion attempts in one run of the program
MaxLineas == 2     \* records of a file given to a parser
MaxSev == 12       \* integer severities run over -MaxSev..MaxSev

\* all sequences over S of length at most n
SeqsUpTo(S, n) == UNION {[1..k -> S] : k \in 0..n}

TsStrings ==
    {"", "2024-01-02T03:04:05Z", "2024-01-02T03:04:05+00:00", "2024-01-02 03:04:05",
     "2024-01-02", "2024-02-29T23:59:59-05:30", "2023-02-29T00:00:00",
     "2024-13-02T03:04:05", "2024-01-02T24:00:00", "2024-01-02T03:04:05.250Z",
     "2024-01-02T03:04", "2024-01-02T03:04:05Z:30", "2024-01-02T03:04:05+24:00",
     "Sep 02 17:23:54", "sep  2 7:3:4", "Feb 29 10:00:00", "Feb 28 10:00:00",
     "Apr 31 00:00:00", "Sep 02 17:23:60", "Sep 02 24:00:00", "Sep 02 17:23:54 ",
     "Sept 02 17:23:54", "Sep 02 17:23", "02/09/2024 17:23", "1693675434",
     "garbage", "Z", "yesterday at noon"}

TsArgs ==
    {PyStr(x) : x \in TsStrings}
    \cup {PyNone, PyInt(0), PyInt(1693675434), PyBool(FALSE), PyBool(TRUE),
          PyFloat("finite", 0, TRUE), PyFloat("finite", 1693675434, FALSE),
          PyList(0), PyList(2), EmptyDict, PyDict(<< <<"date", PyStr("2024-01-02")>> >>)}

SevStrings ==
    {"", "0", "7", "10", "11", "-3", "+4", " 7 ", "007", "1_0", "_1", "99999",
     "3.5", "1e2", "high", "critical", "0x1", "- 1", "4 "}

SevArgs ==
    {PyInt(n) : n \in (-MaxSev)..MaxSev}
    \cup {PyStr(x) : x \in SevStrings}
    \cup {PyFloat("finite", n, n = 0) : n \in -2..MaxSev}
    \cup {PyFloat("inf", 0, FALSE), PyFloat("-inf", 0, FALSE), PyFloat("nan", 0, FALSE),
          PyNone, PyBool(FALSE), PyBool(TRUE), PyInt(1000000), PyInt(-1000000),
          PyList(0), PyList(1), EmptyDict, PyDict(<< <<"level", PyInt(3)>> >>)}

\* rows of delimited-text files: header rows and data rows
CsvCabeceras ==
    {ColsLinux, <<"timestamp", "host", "process", "message">>,
     ColsWindows, <<"TimeCreated", "Computer", "Message", "Level">>, <<>>}
CsvFilas ==
    {<<"Sep 02 17:23:54", "myhost", "sshd", "Accepted password", "7">>,
     <<"2024-01-02T03:04:05Z", "web1", "nginx", "GET /", "high">>,
     <<"2024-01-02", "db1">>,
     <<"x", "h", "p", "m", "42", "extra">>,
     <<>>}
CsvArchivos ==
    {<<>>} \cup {<<c>> \o f : c \in CsvCabeceras, f \in SeqsUpTo(CsvFilas, MaxLineas)}

\* lines of JSON/NDJSON files
Obj1(k, v) == PyDict(<< <<k, v>> >>)
Rule(level) == <<"rule", Obj1("level", level)>>
JsonLineas ==
    {JBlank, JBad,
     JVal(PyDict(<< <<"timestamp", PyStr("2024-01-02T03:04:05Z")>>,
                    <<"agent", Obj1("name", PyStr("web1"))>>,
                    <<"predecoder", Obj1("program_name", PyStr("sshd"))>>,
                    <<"full_log", PyStr("Accepted password")>>,
                    Rule(PyInt(12)) >>)),
     JVal(PyDict(<< <<"manager", Obj1("name", PyStr("mgr"))>>,
                    <<"decoder", Obj1("name", PyStr("pam"))>>,
                    Rule(PyStr("3")) >>)),
     JVal(EmptyDict),
     JVal(PyDict(<< <<"timestamp", PyNone>>, Rule(PyFloat("finite", 3, FALSE)) >>)),
     JVal(PyList(2)),
     JVal(PyStr("Accepted password")),
     JVal(Obj1("agent", PyStr("web1"))),
     JVal(Obj1("rule", PyInt(5))),
     JVal(PyDict(<< Rule(PyFloat("inf", 0, FALSE)) >>)),
     JVal(PyDict(<< Rule(PyFloat("nan", 0, FALSE)) >>)),
     JVal(Obj1("timestamp", PyInt(1693675434)))}
JsonArchivos == SeqsUpTo(JsonLineas, MaxLineas)

\* lines of syslog files
SyslogLineas ==
    {"Sep 02 17:23:54 myhost sshd: Accepted password",
     "Sep  2 17:23:55 my:host  sshd[1234]: Failed: bad password ",
     "Feb 30 01:02:03 h cron job : run",
     "Sep 02 17:23:54 h  : m",
     "Sep 02 17:23:54 myhost sshd:Accepted: password",
     "Sep 02 17:23:54 myhost kernel panic",
     "2024-01-02T03:04:05Z myhost sshd: Accepted password",
     "",
     "   "}
SyslogArchivos == SeqsUpTo(SyslogLineas, MaxLineas)

\* EVTX containers
EvtxArchivos ==
    {Evtx(a, r, f) :
        a \in BOOLEAN, r \in SeqsUpTo({"xml", "bad"}, MaxLineas), f \in 0..MaxLineas}

\* the files a user of the menu has at hand, a few of each kind
Contenidos(opcion) ==
    CASE opcion \in {"1", "4"} ->
            {<<>>,
             <<ColsLinux, <<"Sep 02 17:23:54", "myhost", "sshd", "Accepted password", "7">>,
               <<"2024-01-02", "db1">>>>,
             <<ColsWindows, <<"2024-01-02T03:04:05Z", "web1", "nginx", "GET /", "42">>>>}
      [] opcion = "2" ->
            {<<JBlank>>,
             <<JVal(PyDict(<< <<"full_log", PyStr("Accepted password")>>,
                              Rule(PyInt(12)) >>)), JBad>>,
             <<JVal(EmptyDict), JVal(PyList(2)), JVal(EmptyDict)>>}
      [] opcion = "3" ->
            {<<"Sep 02 17:23:54 myhost sshd: Accepted password", "">>,
             <<"Sep 02 17:23:54 myhost kernel panic">>}
      [] opcion = "5" ->
            {Evtx(TRUE, <<"xml", "bad">>, 0), Evtx(TRUE, <<"xml">>, 1), Evtx(FALSE, <<>>, 0)}

Rutas ==
    {Ruta("ausente", FALSE, FALSE, "auth.log"),
     Ruta("directorio", FALSE, TRUE, "logs"),
     Ruta("archivo", FALSE, TRUE, "auth.log"),
     Ruta("archivo", TRUE, TRUE, "auth.log"),
     Ruta("archivo", FALSE, FALSE, "auth.log")}

---------------------------------------------------------------------------
(* The program: menu_principal (main.py:115-140) and the loop of             *)
(* menu_ingesta (main.py:33-78), one action per pass through a loop.  An     *)
(* exception nothing catches ends the process: pc = "crashed".               *)

harness == <<nfn, narg, nres, pfmt, pfile, pres>>

HarnessIdle ==
    /\ nfn = "" /\ narg = PyNone /\ nres = Returns(PyNone)
    /\ pfmt = "" /\ pfile = <<>> /\ pres = SinLlamada

Init ==
    /\ pc = "principal"
    /\ datos_cargados = <<>>
    /\ EVTX_SUPPORT \in BOOLEAN
    /\ intento = SinIntento
    /\ intentos = 0
    /\ salida = ""
    /\ HarnessIdle

\* main.py:130-131
PrincipalIngesta ==
    /\ pc = "principal"
    /\ pc' = "ingesta"
    /\ salida' = "menu_ingesta"
    /\ UNCHANGED <<datos_cargados, EVTX_SUPPORT, intento, intentos, harness>>

\* main.py:132-133
PrincipalMostrar ==
    /\ pc = "principal"
    /\ pc' = IF mostrar_eventos(datos_cargados).exc = "none" THEN "principal" ELSE "crashed"
    /\ salida' = IF mostrar_eventos(datos_cargados).exc # "none" THEN "traceback_mostrar"
                 ELSE IF datos_cargados = <<>> THEN "no_hay_datos" ELSE "eventos"
    /\ UNCHANGED <<datos_cargados, EVTX_SUPPORT, intento, intentos, harness>>

\* main.py:134-135 and 96-113
PrincipalResumen ==
    /\ pc = "principal"
    /\ salida' = IF datos_cargados = <<>> THEN "no_hay_datos" ELSE "resumen"
    /\ UNCHANGED <<pc, datos_cargados, EVTX_SUPPORT, intento, intentos, harness>>

\* main.py:136-138
PrincipalSalir ==
    /\ pc = "principal"
    /\ pc' = "exited"
    /\ salida' = "saliendo"
    /\ UNCHANGED <<datos_cargados, EVTX_SUPPORT, intento, intentos, harness>>

\* main.py:139-140
PrincipalInvalida ==
    /\ pc = "principal"
    /\ salida' = "opcion_no_valida"
    /\ UNCHANGED <<pc, datos_cargados, EVTX_SUPPORT, intento, intentos, harness>>

\* main.py:44-45
IngestaVolver ==
    /\ pc = "ingesta"
    /\ pc' = "principal"
    /\ salida' = "menu_principal"
    /\ UNCHANGED <<datos_cargados, EVTX_SUPPORT, intento, intentos, harness>>

\* main.py:47-49
IngestaInvalida ==
    /\ pc = "ingesta"
    /\ salida' = "opcion_no_valida"
    /\ UNCHANGED <<pc, datos_cargados, EVTX_SUPPORT, intento, intentos, harness>>

\* main.py:51-78: one ingestion attempt in the ingestion menu, from the path
\* typed to the next prompt; staging is the call of main.py:52 and nuevos the
\* call of main.py:56-70, which is made only when the staging has returned a path
IngestaIntento(opcion, ruta, staging, nuevos) ==
    LET staged == staging.exc = "none" /\ Truthy(staging.ret)
        llamada == IF staged THEN nuevos ELSE SinLlamada
        devuelve == staged /\ llamada.exc = "none"
    IN  /\ pc = "ingesta"
        /\ intentos < MaxIntentos
        /\ intentos' = intentos + 1
        /\ intento' = Intento(opcion, ruta, datos_cargados, staging, staged, llamada)
        /\ pc' = IF staging.exc # "none" \/ llamada.exc # "none" THEN "crashed" ELSE "ingesta"
        /\ datos_cargados' = IF devuelve
                             THEN Extiende(datos_cargados, llamada.datos, Tipo(opcion))
                             ELSE datos_cargados
        /\ salida' = IF staging.exc # "none" \/ llamada.exc # "none" THEN "traceback_ingesta"
                     ELSE IF ~staged THEN "ruta_no_valida"
                     ELSE IF llamada.datos # <<>> THEN "total_eventos"
                     ELSE "no_se_han_cargado"
        /\ UNCHANGED <<EVTX_SUPPORT, harness>>

\* main.py:56-70: the branch of each option, with the files of its kind
IngestaCsv ==
    \E ruta \in Rutas, contenido \in Contenidos("1") :
        IngestaIntento("1", ruta, guardar_en_temporal(ruta), procesar_csv(contenido))

IngestaJson ==
    \E ruta \in Rutas, contenido \in Contenidos("2") :
        IngestaIntento("2", ruta, guardar_en_temporal(ruta), procesar_json(contenido))

IngestaSyslog ==
    \E ruta \in Rutas, contenido \in Contenidos("3") :
        IngestaIntento("3", ruta, guardar_en_temporal(ruta), procesar_syslog(contenido))

IngestaCsvWindows ==
    \E ruta \in Rutas, contenido \in Contenidos("4") :
        IngestaIntento("4", ruta, guardar_en_temporal(ruta), procesar_csv_windows(contenido))

IngestaEvtx ==
    \E ruta \in Rutas, contenido \in Contenidos("5") :
        IngestaIntento("5", ruta, guardar_en_temporal(ruta),
                       procesar_evtx(contenido, EVTX_SUPPORT))

Next ==
    \/ PrincipalIngesta
    \/ PrincipalMostrar
    \/ PrincipalResumen
    \/ PrincipalSalir
    \/ PrincipalInvalida
    \/ IngestaVolver
    \/ IngestaInvalida
    \/ IngestaCsv
    \/ IngestaJson
    \/ IngestaSyslog
    \/ IngestaCsvWindows
    \/ IngestaEvtx

Spec == Init /\ [][Next]_vars

---------------------------------------------------------------------------
(* The normalisers applied to every argument a parser can pass them: a      *)
(* behaviour is one call                                                    *)

program == <<pc, datos_cargados, EVTX_SUPPORT, intento, intentos, salida>>

ProgramIdle ==
    /\ pc = "principal" /\ datos_cargados = <<>> /\ EVTX_SUPPORT = FALSE
    /\ intento = SinIntento /\ intentos = 0 /\ salida = ""

InitNorm == ProgramIdle /\ HarnessIdle

CallTimestamp ==
    \E ts \in TsArgs :
        /\ nfn = ""
        /\ nfn' = "normalizar_timestamp"
        /\ narg' = ts
        /\ nres' = normalizar_timestamp(ts)
        /\ UNCHANGED <<program, pfmt, pfile, pres>>

CallSeverity ==
    \E sev \in SevArgs :
        /\ nfn = ""
        /\ nfn' = "normalizar_severity"
        /\ narg' = sev
        /\ nres' = normalizar_severity(sev)
        /\ UNCHANGED <<program, pfmt, pfile, pres>>

NextNorm == CallTimestamp \/ CallSeverity

SpecNorm == InitNorm /\ [][NextNorm]_vars

---------------------------------------------------------------------------
(* The parsers applied to every file of the pools: a behaviour is one call  *)

InitParse == ProgramIdle /\ HarnessIdle

Parse(fmt, contenido, llamada) ==
    /\ pfmt = ""
    /\ pfmt' = fmt
    /\ pfile' = contenido
    /\ pres' = llamada
    /\ UNCHANGED <<program, nfn, narg, nres>>

ParseCsv == \E f \in CsvArchivos : Parse("csv", f, procesar_csv(f))
ParseCsvWindows == \E f \in CsvArchivos : Parse("csv_windows", f, procesar_csv_windows(f))
ParseJson == \E f \in JsonArchivos : Parse("json", f, procesar_json(f))
ParseSyslog == \E f \in SyslogArchivos : Parse("syslog", f, procesar_syslog(f))
ParseEvtx ==
    \E f \in EvtxArchivos, support \in BOOLEAN :
        Parse(IF support THEN "evtx" ELSE "evtx_unsupported", f, procesar_evtx(f, support))

NextParse == ParseCsv \/ ParseCsvWindows \/ ParseJson \/ ParseSyslog \/ ParseEvtx

SpecParse == InitParse /\ [][NextParse]_vars

---------------------------------------------------------------------------
(* Properties *)

IsPrefix(a, b) == Len(a) <= Len(b) /\ \A i \in 1..Len(a) : b[i] = a[i]

\* the sequences of a sequence, one after the other
RECURSIVE Aplana(_)
Aplana(ss) == IF ss = <<>> THEN <<>> ELSE Head(ss) \o Aplana(Tail(ss))

\* a string without its whitespace
RECURSIVE SinEspacios(_)
SinEspacios(s) == IF s = "" THEN ""
                  ELSE (IF IsSpace(Head(s)) THEN "" ELSE Head(s)) \o SinEspacios(Tail(s))

Contiene(s, S) == \E i \in 1..Len(s) : Ch(s, i) \in S

TextParsers == {"csv", "csv_windows", "json", "syslog"}
AllParsers == TextParsers \cup {"evtx", "evtx_unsupported"}

\* the text fields of an event
TextFields(evento) == <<evento.timestamp, evento.host, evento.process, evento.message>>

\* C1: every parser call returns; in a JSON/NDJSON file a line that does not
\* decode, or decodes to something that is not an object, or whose nested
\* agent/manager/predecoder/decoder/rule value is not an object, or whose
\* values the normalisers cannot take, is counted as invalid, every line is
\* read, and the other lines give their events.
C1_BestEffort ==
    pfmt \in AllParsers =>
        /\ pres.exc = "none"
        /\ pfmt = "json" =>
              /\ pres.leidas = Len(pfile)
              /\ Len(pres.datos) + pres.invalidas
                    = Cardinality({i \in 1..Len(pfile) : pfile[i].kind # "blank"})

\* C2: normalizar_severity returns, for every argument, an integer of 0..10:
\* the clamped integer when the argument converts to one, 0 when it does not.
C2_SeverityTotal ==
    nfn = "normalizar_severity" =>
        /\ nres.exc = "none"
        /\ nres.ret \in 0..10
        /\ narg.cls = "int" => nres.ret = Min(10, Max(0, narg.int))
        /\ (narg.cls = "int" /\ narg.int \in 0..10) => nres.ret = narg.int
        /\ narg.cls \in {"NoneType", "list", "dict"} => nres.ret = 0

\* C3: the running collection only ever grows at its end, and an ingestion
\* whose parser returned the events E for the tag T leaves the collection as
\* it was, followed by the events of E in their order, each with the tag T.
C3_AppendOnly ==
    [][/\ IsPrefix(datos_cargados, datos_cargados')
       /\ (intentos' = intentos + 1 /\ intento'.llamado /\ intento'.llamada.exc = "none") =>
             LET E == intento'.llamada.datos
                 T == Tipo(intento'.opcion)
                 n == Len(datos_cargados)
             IN  /\ Len(datos_cargados') = n + Len(E)
                 /\ \A i \in 1..n : datos_cargados'[i] = datos_cargados[i]
                 /\ \A j \in 1..Len(E) :
                       /\ TextFields(datos_cargados'[n + j]) = TextFields(E[j])
                       /\ datos_cargados'[n + j].severity = E[j].severity
                       /\ datos_cargados'[n + j]._log_type = T
                 /\ (E = <<>> => datos_cargados' = datos_cargados)]_vars

C3_Appended ==
    /\ intento.llamado /\ intento.llamada.exc = "none"
    /\ Len(intento.antes) > 0
    /\ Len(intento.llamada.datos) = 2
    /\ datos_cargados[1]._log_type # Tipo(intento.opcion)
    /\ Len(datos_cargados) = Len(intento.antes) + 2

\* a string with a trailing Z replaced by +00:00
ReplaceTrailingZ(s) ==
    IF Ch(s, Len(s)) = "Z" THEN Sub(s, 1, Len(s) - 1) \o "+00:00" ELSE s

\* C4: normalizar_timestamp returns for every argument: the empty string for
\* an empty one, the ISO-8601 text of a string that parses as ISO-8601 once a
\* trailing Z is replaced by +00:00, else the ISO-8601 text of a string of the
\* form month day hour:minute:second, and every other argument unchanged.
C4_TimestampTotal ==
    nfn = "normalizar_timestamp" =>
        /\ nres.exc = "none"
        /\ ~Truthy(narg) => nres.ret = PyStr("")
        /\ (narg.cls = "str" /\ narg.str # "") =>
              LET iso == FromIsoFormat(ReplaceTrailingZ(narg.str))
                  sys == StrpTime(narg.str)
              IN  nres.ret = IF iso.ok THEN PyStr(iso.txt)
                             ELSE IF sys.ok THEN PyStr(sys.txt)
                             ELSE narg

\* C5: no error raised while a file is staged, opened, read or mapped ends
\* the process: an ingestion attempt never leaves it stopped on a traceback.
C5_NoFatalError == ~(pc = "crashed" /\ salida = "traceback_ingesta")

\* C6: after an attempt on a path that does not exist or is not a regular
\* file, staging has returned None, no parser has been called, the running
\* collection is what it was before the attempt, and the attempt has not
\* ended on a traceback.
C6_StagingFailure ==
    (intento.opcion \in Opciones /\ intento.ruta.clase # "archivo") =>
        /\ intento.staging = Returns(PyNone)
        /\ ~intento.llamado
        /\ intento.llamada = SinLlamada
        /\ datos_cargados = intento.antes
        /\ salida # "traceback_ingesta"

C6_NotAFile ==
    /\ intento.opcion \in Opciones
    /\ intento.ruta.clase = "directorio"
    /\ ~intento.llamado
    /\ Len(intento.antes) > 0

\* the data rows of a delimited-text file: the rows after the header that
\* are not blank lines
DataRows(filas) == {i \in 2..Len(filas) : filas[i] # <<>>}

\* C7: in both delimited-text parsers every data row gives one event, and in
\* every event the four text fields are strings, never None, and the severity
\* is an integer of 0..10; where the header lacks the process column the
\* process is "" in procesar_csv and "unknown" in procesar_csv_windows.
C7_MissingDegrades ==
    pfmt \in {"csv", "csv_windows"} =>
        /\ pres.exc = "none"
        /\ Len(pres.datos) = Cardinality(DataRows(pfile))
        /\ \A i \in 1..Len(pres.datos) :
              /\ \A k \in 1..4 : TextFields(pres.datos[i])[k].cls = "str"
              /\ pres.datos[i].severity \in 0..10

\* the event procesar_syslog makes of a line that matches, by the four groups
EventoDeLinea(linea) ==
    LET m == RegexMatch(Strip(linea))
    IN  IF m.ok
        THEN <<Evento(normalizar_timestamp(PyStr(m.g1)).ret, PyStr(m.g2), PyStr(m.g3),
                      PyStr(m.g4), 0)>>
        ELSE <<>>

\* the four groups are the line's parts: the line starts with the first and
\* ends with the last, the host has no whitespace, the process has no colon,
\* and the groups and the colon, whitespace apart, are the whole line
Partes(linea) ==
    LET s == Strip(linea)
        m == RegexMatch(s)
    IN  /\ Sub(s, 1, Len(m.g1)) = m.g1
        /\ Sub(s, Len(s) - Len(m.g4) + 1, Len(s)) = m.g4
        /\ m.g2 # "" /\ ~Contiene(m.g2, SpaceChars)
        /\ m.g3 # "" /\ ~Contiene(m.g3, {":"})
        /\ SinEspacios(s) = SinEspacios(m.g1 \o m.g2 \o m.g3 \o ":" \o m.g4)

Ejemplo == "Sep 02 17:23:54 myhost sshd: Accepted password"

\* C8: procesar_syslog maps each line on its own: a line that matches gives
\* one event, with the normalised first group, the host, the process up to
\* the first colon after it, the rest as the message and severity 0; a line
\* that does not match gives no event and adds one to the invalid count.
C8_Syslog ==
    pfmt = "syslog" =>
        /\ pres.exc = "none"
        /\ pres.datos = Aplana([i \in 1..Len(pfile) |-> EventoDeLinea(pfile[i])])
        /\ pres.invalidas = Cardinality({i \in 1..Len(pfile) : EventoDeLinea(pfile[i]) = <<>>})
        /\ \A i \in 1..Len(pfile) : EventoDeLinea(pfile[i]) # <<>> => Partes(pfile[i])
        /\ \A i \in 1..Len(pres.datos) : pres.datos[i].severity = 0
        /\ EventoDeLinea(Ejemplo) =
              <<Evento(PyStr("1900-09-02T17:23:54"), PyStr("myhost"), PyStr("sshd"),
                       PyStr("Accepted password"), 0)>>
        /\ \A i \in 1..Len(pfile) : Strip(pfile[i]) = "" => EventoDeLinea(pfile[i]) = <<>>

C8_MatchAndMiss ==
    /\ pfmt = "syslog"
    /\ Len(pfile) = 2
    /\ pfile[1] = ""
    /\ pfile[2] = Ejemplo
    /\ Len(pres.datos) = 1
    /\ pres.invalidas = 1

\* C9: without EVTX support, an ingestion that selects the EVTX parser on a
\* staged file gets an empty sequence from a call that neither opens nor
\* reads the file, appends nothing, reports that nothing was loaded and stays
\* in the ingestion menu.
C9_NoEvtxSupport ==
    [][(intentos' = intentos + 1 /\ intento'.opcion = "5" /\ intento'.llamado
            /\ ~EVTX_SUPPORT) =>
          /\ intento'.llamada.exc = "none"
          /\ intento'.llamada.datos = <<>>
          /\ ~intento'.llamada.abierto
          /\ intento'.llamada.leidas = 0
          /\ datos_cargados' = datos_cargados
          /\ salida' = "no_se_han_cargado"
          /\ pc' = "ingesta"]_vars

C9_Unsupported ==
    /\ ~EVTX_SUPPORT
    /\ intento.opcion = "5"
    /\ intento.llamado
    /\ Len(intento.antes) > 0
    /\ salida = "no_se_han_cargado"

\* the records of a text file, and the events of each when parsed on its own
Registros(fmt, contenido) ==
    CASE fmt = "json" -> {i \in 1..Len(contenido) : contenido[i].kind # "blank"}
      [] fmt = "syslog" -> 1..Len(contenido)
      [] OTHER -> DataRows(contenido)

PorRegistro(fmt, contenido) ==
    CASE fmt = "json" -> [i \in 1..Len(contenido) |-> procesar_json(<<contenido[i]>>).datos]
      [] fmt = "syslog" -> [i \in 1..Len(contenido) |-> procesar_syslog(<<contenido[i]>>).datos]
      [] fmt = "csv" ->
            [i \in 1..(Len(contenido) - 1) |->
                procesar_csv(<<contenido[1], contenido[i + 1]>>).datos]
      [] fmt = "csv_windows" ->
            [i \in 1..(Len(contenido) - 1) |->
                procesar_csv_windows(<<contenido[1], contenido[i + 1]>>).datos]

\* C10: when a text parser returns, its events and its invalid count add up
\* to the records of the file (the non-blank lines of a JSON/NDJSON file, all
\* the lines of a syslog file, the data rows of a delimited-text file), the
\* events are those of the records in the records' order, and an empty file
\* gives no event and no invalid record.
C10_Accounting ==
    (pfmt \in TextParsers /\ pres.exc = "none") =>
        /\ Len(pres.datos) + pres.invalidas = Cardinality(Registros(pfmt, pfile))
        /\ pres.datos = Aplana(PorRegistro(pfmt, pfile))
        /\ pfile = <<>> => (pres.datos = <<>> /\ pres.invalidas = 0)

C10_BlankAndBad ==
    /\ pfmt = "json"
    /\ pres.exc = "none"
    /\ Len(pfile) = 2
    /\ pfile[1].kind = "blank"
    /\ pfile[2].kind = "bad"
    /\ pres.datos = <<>>
    /\ pres.invalidas = 1

===========================================================================
